---- MODULE Spec2Model ----
(***************************************************************************)
(* Model of the quiz session engine (src/src/quiz.js) as driven by the     *)
(* start command (index.js text carried in src/demo-aifc01.sh).            *)
(*                                                                         *)
(* JavaScript runs the engine on one thread: code between two awaits is    *)
(* atomic, and the deadline timer callback can only run while start() is   *)
(* suspended in a prompt.  pc is the position of the start() coroutine.    *)
(* The position "loop" (head of the for loop) is made visible so that the  *)
(* return of askQuestion is a state; no timer and no clock tick is         *)
(* enabled there, so this adds no interleaving.                            *)
(***************************************************************************)
EXTENDS Integers, Sequences, FiniteSets, TLC

\* ---------------------------------------------------------------- bounds
MaxQuestions == 2
MaxAttempts == 2
MaxTime == 1
MaxTimeLimit == 1
MaxTotal == 201
MaxCorrect == 3
MaxFailCall == 1
MaxSaves == 52
MaxFileLen == 2

NULL == -1

\* ------------------------------------------------------- question records
StrOpt(s) == [kind |-> "str", text |-> s, value |-> ""]
ObjOpt(t, v) == [kind |-> "obj", text |-> t, value |-> v]
NumAns(n) == [kind |-> "num", num |-> n, str |-> ""]
StrAns(s) == [kind |-> "str", num |-> 0, str |-> s]

NoOptions == << >>

SingleQ ==
  [id |-> "q-single", type |-> "single-choice",
   options |-> <<StrOpt("A"), StrOpt("B"), StrOpt("C")>>,
   correctAnswers |-> <<NumAns(1)>>, keywords |-> << >>]

MultiQ ==
  [id |-> "q-multi", type |-> "multiple-choice",
   options |-> <<StrOpt("A"), ObjOpt("B", "b"), StrOpt("C")>>,
   correctAnswers |-> <<StrAns("C"), NumAns(0)>>, keywords |-> << >>]

\* free text is a sequence of characters
KwEbs == <<"e", "B", "s">>

FreeQ ==
  [id |-> "q-free", type |-> "free-form",
   options |-> NoOptions, correctAnswers |-> << >>, keywords |-> <<KwEbs>>]

EssayQ ==
  [id |-> "q-essay", type |-> "essay",
   options |-> NoOptions, correctAnswers |-> << >>, keywords |-> << >>]

Bank == {SingleQ, MultiQ, FreeQ, EssayQ}

FreeTexts == {<<"E", "b", "s">>}
SelfAssessments == {"true", "false", "partial"}

\* ------------------------------------------------------------- sequences
RECURSIVE InsertSorted(_, _)
InsertSorted(s, x) ==
  IF s = << >> THEN <<x>>
  ELSE IF x <= Head(s) THEN <<x>> \o s
  ELSE <<Head(s)>> \o InsertSorted(Tail(s), x)

RECURSIVE SortAsc(_)
SortAsc(s) == IF s = << >> THEN << >> ELSE InsertSorted(SortAsc(Tail(s)), Head(s))

RECURSIVE SetToSortedSeq(_)
SetToSortedSeq(S) ==
  IF S = {} THEN << >>
  ELSE LET m == CHOOSE x \in S : \A y \in S : x <= y
       IN <<m>> \o SetToSortedSeq(S \ {m})

\* ------------------------------------------------------------ validators
OptMatches(opt, answer) ==
  \/ opt.kind = "str" /\ opt.text = answer.str
  \/ opt.kind = "obj" /\ (opt.text = answer.str \/ opt.value = answer.str)

\* Array.prototype.findIndex: 0-based index of the first match, -1 if none
FindIndex(options, answer) ==
  LET hits == {j \in 1..Len(options) : OptMatches(options[j], answer)}
  IN IF hits = {} THEN -1
     ELSE (CHOOSE j \in hits : \A h \in hits : j <= h) - 1

ResolveAnswer(question, answer) ==
  IF answer.kind = "num" THEN answer.num ELSE FindIndex(question.options, answer)

validateMultipleChoiceUnsorted(question, userAnswer) ==
  LET resolved == [j \in 1..Len(question.correctAnswers) |->
                     ResolveAnswer(question, question.correctAnswers[j])]
  IN userAnswer = resolved

validateMultipleChoice(question, userAnswer) ==
  LET resolved == [j \in 1..Len(question.correctAnswers) |->
                     ResolveAnswer(question, question.correctAnswers[j])]
  IN userAnswer = SortAsc(resolved)

validateSingleChoiceTextOnly(question, userAnswer) ==
  LET ca == question.correctAnswers[1]
      hits == {j \in 1..Len(question.options) : question.options[j].text = ca.str}
  IN IF ca.kind = "num" THEN userAnswer = ca.num
     ELSE userAnswer = (IF hits = {} THEN -1
                        ELSE (CHOOSE j \in hits : \A h \in hits : j <= h) - 1)

validateSingleChoice(question, userAnswer) ==
  userAnswer = ResolveAnswer(question, question.correctAnswers[1])

\* String.prototype.toLowerCase on the characters the model uses
LowerChar(c) ==
  CASE c = "E" -> "e"
    [] c = "B" -> "b"
    [] c = "S" -> "s"
    [] OTHER -> c

ToLowerCase(str) == [k \in 1..Len(str) |-> LowerChar(str[k])]

\* String.prototype.includes
Includes(hay, needle) ==
  \E off \in 0..(Len(hay) - Len(needle)) :
    \A k \in 1..Len(needle) : hay[off + k] = needle[k]

\* lines 313-322: whether the keyword hint is printed
KeywordHint(question, userAnswer) ==
  /\ Len(question.keywords) > 0
  /\ \E k \in 1..Len(question.keywords) :
       Includes(ToLowerCase(userAnswer), ToLowerCase(question.keywords[k]))

validateFreeFormKeyword(question, userAnswer, selfAssessment) ==
  (selfAssessment = "true" \/ selfAssessment = "partial")
    /\ KeywordHint(question, userAnswer)

validateFreeForm(question, userAnswer, selfAssessment) ==
  selfAssessment = "true" \/ selfAssessment = "partial"

\* askMultipleChoice, line 207: selectedAnswers.sort((a, b) => a - b)
SortSelected(selectedAnswers) == SortAsc(selectedAnswers)

\* what the user can submit to the checkbox prompt: any set of the choices
RawSelections(question) ==
  {SetToSortedSeq(S) : S \in SUBSET (0..(Len(question.options) - 1))}

\* validate of the checkbox prompt: TRUE when the input is let through
CheckboxValidAny(input) == TRUE

CheckboxValid(input) == Len(input) # 0

\* what the user can type at the input prompt
RawTexts == FreeTexts \cup {<< >>, <<" ">>, <<" ", "E", "b", "s", " ">>}

\* String.prototype.trim
RECURSIVE Trim(_)
Trim(text) ==
  IF text = << >> THEN text
  ELSE IF Head(text) = " " THEN Trim(Tail(text))
  ELSE IF text[Len(text)] = " " THEN Trim(SubSeq(text, 1, Len(text) - 1))
  ELSE text

\* validate of the input prompt: TRUE when the input is let through
InputValid(input) == Trim(input) # << >>

\* answers the prompt collaborator can deliver for a choice question
ChoiceAnswers(question) ==
  IF question.type = "single-choice"
    THEN {<<j>> : j \in 0..(Len(question.options) - 1)}
    ELSE {input \in RawSelections(question) : CheckboxValid(input)}

ChoiceIsCorrect(question, ua) ==
  IF question.type = "single-choice"
    THEN validateSingleChoice(question, ua[1])
    ELSE validateMultipleChoice(question, ua)

\* ------------------------------------------- IEEE-754 double arithmetic
\* A positive double is [e, hi, mid, lo]: its value is
\* (hi * 2^36 + mid * 2^18 + lo) * 2^-(52 + e), with mid, lo < 2^18.
Limb == 262144

DZero == [e |-> 0, hi |-> 0, mid |-> 0, lo |-> 0]

RECURSIVE NormShift(_, _, _)
NormShift(s, t, k) == IF s * (2 ^ k) >= t THEN k ELSE NormShift(s, t, k + 1)

\* adds inc (a multiple of the unit in the last kept place) with carries
AddCarry(d, inc) ==
  LET lo1 == d.lo + inc
      c1 == lo1 \div Limb
      mid1 == d.mid + c1
      c2 == mid1 \div Limb
  IN [e |-> d.e, hi |-> d.hi + c2, mid |-> mid1 % Limb, lo |-> lo1 % Limb]

\* score / total for 1 <= score <= total, rounded to nearest, ties to even
DivDouble(s, t) ==
  LET k == NormShift(s, t, 0)
      r0 == (s * (2 ^ k)) % t
      a == (r0 * 65536) \div t
      r1 == (r0 * 65536) % t
      b == (r1 * Limb) \div t
      r2 == (r1 * Limb) % t
      c == (r2 * Limb) \div t
      r3 == (r2 * Limb) % t
      up == (2 * r3 > t) \/ (2 * r3 = t /\ c % 2 = 1)
      q == [e |-> k, hi |-> 65536 + a, mid |-> b, lo |-> c]
  IN IF up THEN AddCarry(q, 1) ELSE q

\* x * 100, rounded to 53 significant bits, ties to even
Mul100(x) ==
  LET pl == x.lo * 100
      pm == x.mid * 100 + (pl \div Limb)
      ph == x.hi * 100 + (pm \div Limb)
      lo1 == pl % Limb
      mid1 == pm % Limb
      drop == IF ph < 8388608 THEN 64 ELSE 128
      low == lo1 % drop
      odd == (lo1 \div drop) % 2 = 1
      up == (2 * low > drop) \/ (2 * low = drop /\ odd)
      t == [e |-> x.e, hi |-> ph, mid |-> mid1, lo |-> lo1 - low]
  IN IF up THEN AddCarry(t, drop) ELSE t

\* Math.round: floor(x + 0.5) computed exactly
MathRound(x) ==
  (x.hi \div (2 ^ (16 + x.e))) + ((x.hi \div (2 ^ (15 + x.e))) % 2)

MathFloor(x) == x.hi \div (2 ^ (16 + x.e))

MathCeil(x) ==
  LET ip == x.hi \div (2 ^ (16 + x.e))
      frac == x.hi % (2 ^ (16 + x.e)) # 0 \/ x.mid # 0 \/ x.lo # 0
  IN IF frac THEN ip + 1 ELSE ip

Ratio100(score, total) ==
  IF score = 0 THEN DZero ELSE Mul100(DivDouble(score, total))

PercentageFloor(score, total) == MathFloor(Ratio100(score, total))

PercentageCeil(score, total) == MathCeil(Ratio100(score, total))

\* Math.round((this.score / this.questions.length) * 100)
Percentage(score, total) == MathRound(Ratio100(score, total))

\* ------------------------------------------------------------------ state
VARIABLES questions, timeLimit, allowRetry,
          currentQuestionIndex, answers, score, startTime, endTime,
          timeoutId, pc, i, attempt, userAnswer,
          now, results, finishedBy, presented, cmd, feedback, shown, notice, saves,
          file, file0, pfScore, pfTotal, pfPct, vQ, vIn, vOut, lIn, lOut

config == <<questions, timeLimit, allowRetry>>
engine == <<currentQuestionIndex, answers, score, startTime, endTime>>
\* file0 remembers the results file as the run found it
store == <<saves, file, file0>>
pv == <<vQ, vIn, vOut>>
ld == <<lIn, lOut>>
pf == <<pfScore, pfTotal, pfPct, vQ, vIn, vOut, lIn, lOut>>
vars == <<questions, timeLimit, allowRetry,
          currentQuestionIndex, answers, score, startTime, endTime,
          timeoutId, pc, i, attempt, userAnswer,
          now, results, finishedBy, presented, cmd, feedback, shown, notice, saves,
          file, file0, pfScore, pfTotal, pfPct, vQ, vIn, vOut, lIn, lOut>>

\* userAnswer holds the free-form text between the answer prompt and the
\* self-assessment prompt; outside that window the local is not live
NoAnswer == [sel |-> << >>, text |-> << >>]

PromptPcs == {"ask", "assess", "retry"}

\* The clock counts minutes, the unit of the --time option; the command
\* hands the engine the limit in milliseconds (minutes * 60 * 1000).
MsPerMinute == 60000

\* the longest delay setTimeout honours, in milliseconds (2^31 - 1)
TimeoutMax == 2147483647

\* the shortest limit, in minutes, whose milliseconds exceed TimeoutMax
LongLimit == TimeoutMax \div MsPerMinute + 1

\* the delay the timer runs with: setTimeout replaces a delay above
\* TimeoutMax by 1 ms, which is less than one unit of the clock
TimerDelayLate(limit) == limit + 1

TimerDelay(limit) ==
  IF limit > TimeoutMax \div MsPerMinute THEN 0 ELSE limit

\* the pure-function runs are idle during a session
NoInput == [sel |-> << >>, text |-> << >>, self |-> "false"]
NoOutput == [done |-> FALSE, isCorrect |-> FALSE, hint |-> FALSE]
\* no questions file is being loaded
NoLoadIn ==
  [file |-> [kind |-> "missing", questions |-> << >>],
   category |-> "all", shuffle |-> FALSE, limit |-> 0]
\* order remembers the order shuffleArray produced, parsed the array
\* data.questions as the call left it
NoLoadOut ==
  [state |-> "pending", questions |-> << >>, error |-> "", order |-> << >>,
   parsed |-> << >>]
LoadIdle == lIn = NoLoadIn /\ lOut = NoLoadOut

PureIdle ==
  /\ pfScore = 0 /\ pfTotal = 1 /\ pfPct = NULL
  /\ vQ = SingleQ /\ vIn = NoInput /\ vOut = NoOutput
  /\ LoadIdle

QuestionSeqs == UNION {[1..n -> Bank] : n \in 1..MaxQuestions}

\* --------------------------------------------------------- ResultsManager
\* The results file: absent, unreadable as JSON, or a JSON array.
MissingFile == [kind |-> "missing", data |-> << >>]
CorruptFile == [kind |-> "corrupt", data |-> << >>]
OkFile(data) == [kind |-> "ok", data |-> data]

KeepLimit == 50

\* one call of saveResult: it is suspended in loadResults ("load"), then in
\* ensureResultsDir / writeFile ("write"), and ends written ("done") or with
\* a logged warning ("warned")
NewSave == [phase |-> "load", loaded |-> << >>, readFailed |-> FALSE]

\* the value of the correctAnswers property of an Answer Record: undefined,
\* or an array
Undefined == << >>
Defined(v) == <<v>>

\* reading the correctAnswers property of an Answer Record
GetCorrectAnswers(a) ==
  IF "correctAnswers" \in DOMAIN a THEN a.correctAnswers ELSE Undefined

\* JSON.stringify followed by JSON.parse of an Answer Record / Session
\* Result: numbers, booleans, strings and arrays come back as they were, a
\* property whose value is undefined is left out
JsonAnswer(a) ==
  IF GetCorrectAnswers(a) = Undefined
    THEN [f \in DOMAIN a \ {"correctAnswers"} |-> a[f]]
    ELSE a

JsonResultNoAnswers(r) ==
  [timestamp |-> r.timestamp,
   totalQuestions |-> r.totalQuestions,
   correctAnswers |-> r.correctAnswers,
   percentage |-> r.percentage,
   duration |-> r.duration,
   answers |-> << >>]

JsonResult(r) ==
  [timestamp |-> r.timestamp,
   totalQuestions |-> r.totalQuestions,
   correctAnswers |-> r.correctAnswers,
   percentage |-> r.percentage,
   duration |-> r.duration,
   answers |-> [j \in 1..Len(r.answers) |-> JsonAnswer(r.answers[j])]]

JsonArray(rs) == [j \in 1..Len(rs) |-> JsonResult(rs[j])]

\* results.splice(0, results.length - 50) when results.length > 50
TrimResultsOldest(rs) ==
  IF Len(rs) > KeepLimit THEN SubSeq(rs, 1, KeepLimit) ELSE rs

TrimResults(rs) ==
  IF Len(rs) > KeepLimit THEN SubSeq(rs, Len(rs) - KeepLimit + 1, Len(rs)) ELSE rs

\* loadResults: the parsed array, or [] when the file is absent, unreadable
\* or a read fails
loadResults(readFails) ==
  IF file.kind = "ok" /\ ~readFails THEN file.data ELSE << >>

\* feedback is the last verdict printed; shown remembers answers, score and
\* index as they were when the current question was first presented; notice
\* is the message of a prompt that refused the input it was given
said == <<feedback, shown, notice>>

NotShown == [answers |-> << >>, score |-> 0, index |-> 0]

\* nothing has been printed about an attempt yet
NoFeedback == [index |-> 0, attempt |-> 0, correct |-> FALSE, reveal |-> FALSE]

\* constructor, lines 7-17, called by the start command with a non-empty
\* question sequence
EngineInit ==
  /\ currentQuestionIndex = 0
  /\ answers = << >>
  /\ score = 0
  /\ startTime = NULL
  /\ endTime = NULL
  /\ timeoutId = "none"
  /\ i = 0
  /\ attempt = 0
  /\ userAnswer = NoAnswer
  /\ now = 0
  /\ results = << >>
  /\ finishedBy = << >>
  /\ presented = << >>
  /\ cmd = "awaiting"
  /\ feedback = NoFeedback
  /\ shown = NotShown
  /\ notice = ""
  /\ saves = << >>

Init ==
  /\ questions \in QuestionSeqs
  /\ timeLimit \in (0..MaxTimeLimit) \cup {LongLimit}
  /\ allowRetry \in BOOLEAN
  /\ EngineInit
  /\ file = MissingFile /\ file0 = file
  /\ pc = "confirm"
  /\ PureIdle

\* ------------------------------------------------------------ finishQuiz
SessionResult ==
  [timestamp |-> now,
   totalQuestions |-> Len(questions),
   correctAnswers |-> score,
   percentage |-> Percentage(score, Len(questions)),
   duration |-> now - startTime,
   answers |-> answers]

finishQuiz(who) ==
  /\ endTime' = now
  /\ results' = Append(results, SessionResult)
  /\ finishedBy' = Append(finishedBy, who)
  /\ saves' = Append(saves, NewSave)
  /\ UNCHANGED <<file, file0>>

\* clearTimeout(timeoutId) guarded by if (timeoutId): cancels a pending
\* timer, has no effect on one that already ran
ClearedTimerKept == timeoutId

ClearedTimer == IF timeoutId = "armed" THEN "cleared" ELSE timeoutId

\* the timer has run out and its callback has not run yet: the event loop
\* runs it before it takes any input or lets more time pass
TimerDue ==
  /\ timeoutId = "armed"
  /\ now >= startTime + TimerDelay(timeLimit)

\* ---------------------------------------------------------------- start()
StartDeclinedStamped ==
  /\ pc = "confirm"
  /\ pc' = "cancelled"
  /\ cmd' = "returned"
  /\ startTime' = now
  /\ UNCHANGED <<config, said, currentQuestionIndex, answers, score, endTime,
                 timeoutId, i, attempt, userAnswer, now, results, finishedBy,
                 presented, store, pf>>

StartDeclined ==
  /\ pc = "confirm"
  /\ pc' = "cancelled"
  /\ cmd' = "returned"
  /\ UNCHANGED <<config, said, engine, timeoutId, i, attempt, userAnswer, now,
                 results, finishedBy, presented, store, pf>>

StartConfirmed ==
  /\ pc = "confirm"
  /\ startTime' = now
  /\ timeoutId' = IF timeLimit > 0 THEN "armed" ELSE "none"
  /\ i' = 0
  /\ pc' = "loop"
  /\ UNCHANGED <<config, said, currentQuestionIndex, answers, score, endTime,
                 attempt, userAnswer, now, results, finishedBy, presented,
                 cmd, store, pf>>

\* the confirmation prompt is outside the try block: its failure rejects
\* start(), and the command's catch branch runs
ConfirmFails ==
  /\ pc = "confirm"
  /\ pc' = "threw"
  /\ cmd' = "errorBranch"
  /\ UNCHANGED <<config, said, engine, timeoutId, i, attempt, userAnswer, now,
                 results, finishedBy, presented, store, pf>>

SupportedTypesAny == {"multiple-choice", "single-choice", "free-form", "essay"}

SupportedTypes == {"multiple-choice", "single-choice", "free-form"}

\* catch (error): disarm the timer, log, and return normally
CatchError ==
  /\ timeoutId' = ClearedTimer
  /\ pc' = "error"
  /\ cmd' = "returned"

\* for-loop head: present question i, or finish when the sequence is done
LoopStep ==
  /\ pc = "loop"
  /\ IF i < Len(questions)
       THEN /\ currentQuestionIndex' = i
            /\ presented' = Append(presented, i)
            /\ shown' = [answers |-> answers, score |-> score, index |-> i]
            /\ IF questions[i + 1].type \in SupportedTypes
                 THEN /\ pc' = "ask"
                      /\ attempt' = 1
                      /\ UNCHANGED <<timeoutId, cmd>>
                 ELSE /\ CatchError
                      /\ UNCHANGED attempt
            /\ UNCHANGED <<endTime, results, finishedBy, store>>
       ELSE /\ timeoutId' = ClearedTimer
            /\ finishQuiz("loop")
            /\ pc' = "done"
            /\ cmd' = "returned"
            /\ UNCHANGED <<currentQuestionIndex, presented, attempt, shown>>
  /\ UNCHANGED <<config, feedback, notice, answers, score, startTime, i, userAnswer,
                 now, pf>>

\* ------------------------------------------------------------ askQuestion
AnswerRecord(question, ua, isCorrect) ==
  [questionId |-> question.id, type |-> question.type,
   correctAnswers |-> IF question.type = "free-form" THEN Undefined
                      ELSE Defined(question.correctAnswers),
   userAnswer |-> ua, isCorrect |-> isCorrect]

PushAnswerFront(ans, rec) == <<rec>> \o ans

PushAnswer(ans, rec) == Append(ans, rec)

PopAnswerKeep(ans) == ans

PopAnswerAll(ans) == << >>

PopAnswer(ans) == SubSeq(ans, 1, Len(ans) - 1)

\* i++ of the for loop
NextIndexSkip(k) == k + 2

NextIndex(k) == k + 1

\* lines 137-153: the verdict printed for attempt n of question k and, for
\* an incorrect attempt, the correct answers shown with it
FeedbackNoReveal(k, n, isCorrect) ==
  [index |-> k, attempt |-> n, correct |-> isCorrect, reveal |-> FALSE]

Feedback(k, n, isCorrect) ==
  [index |-> k, attempt |-> n, correct |-> isCorrect, reveal |-> ~isCorrect]

\* lines 146 and 156: the retry prompt is reached by an incorrect attempt
\* when retries are allowed
RetryOfferedAlways(isCorrect) == ~isCorrect

RetryOffered(isCorrect) == ~isCorrect /\ allowRetry

\* lines 126-177 after validation of one attempt
AfterValidation(ua, isCorrect) ==
  /\ answers' = PushAnswer(answers, AnswerRecord(questions[i + 1], ua, isCorrect))
  /\ feedback' = Feedback(i, attempt, isCorrect)
  /\ score' = IF isCorrect THEN score + 1 ELSE score
  /\ IF RetryOffered(isCorrect)
       THEN /\ pc' = "retry"
            /\ UNCHANGED i
       ELSE /\ pc' = "loop"
            /\ i' = NextIndex(i)

AnswerChoice ==
  /\ pc = "ask"
  /\ ~TimerDue
  /\ questions[i + 1].type \in {"single-choice", "multiple-choice"}
  /\ \E ua \in ChoiceAnswers(questions[i + 1]) :
       AfterValidation([sel |-> ua, text |-> << >>],
                       ChoiceIsCorrect(questions[i + 1], ua))
  /\ notice' = ""
  /\ UNCHANGED <<config, shown, currentQuestionIndex, startTime, endTime, timeoutId,
                 attempt, userAnswer, now, results, finishedBy, presented,
                 cmd, store, pf>>

AnswerFreeForm ==
  /\ pc = "ask"
  /\ ~TimerDue
  /\ questions[i + 1].type = "free-form"
  /\ \E input \in RawTexts :
       /\ InputValid(input)
       /\ userAnswer' = [sel |-> << >>, text |-> Trim(input)]
  /\ notice' = ""
  /\ pc' = "assess"
  /\ UNCHANGED <<config, feedback, shown, engine, timeoutId, i, attempt, now, results,
                 finishedBy, presented, cmd, store, pf>>

SelfAssess ==
  /\ pc = "assess"
  /\ ~TimerDue
  /\ \E sa \in SelfAssessments : AfterValidation(userAnswer,
         validateFreeForm(questions[i + 1], userAnswer.text, sa))
  /\ userAnswer' = NoAnswer
  /\ UNCHANGED <<config, shown, notice, currentQuestionIndex, startTime, endTime, timeoutId,
                 attempt, now, results, finishedBy, presented, cmd, store, pf>>

\* a validate callback returns its message: the prompt shows it and keeps
\* waiting, askMultipleChoice / askFreeForm have not returned
InputRejected ==
  /\ pc = "ask"
  /\ ~TimerDue
  /\ questions[i + 1].type \in {"multiple-choice", "free-form"}
  /\ IF questions[i + 1].type = "multiple-choice"
       THEN /\ \E input \in RawSelections(questions[i + 1]) : ~CheckboxValid(input)
            /\ notice' = "Please select at least one answer."
       ELSE /\ \E input \in RawTexts : ~InputValid(input)
            /\ notice' = "Please provide an answer."
  /\ UNCHANGED <<config, feedback, shown, engine, timeoutId, pc, i, attempt,
                 userAnswer, now, results, finishedBy, presented, cmd, store, pf>>

RetryDeclined ==
  /\ pc = "retry"
  /\ ~TimerDue
  /\ pc' = "loop"
  /\ i' = NextIndex(i)
  /\ UNCHANGED <<config, said, engine, timeoutId, attempt, userAnswer, now, results,
                 finishedBy, presented, cmd, store, pf>>

RetryAccepted ==
  /\ pc = "retry"
  /\ ~TimerDue
  /\ attempt < MaxAttempts
  /\ answers' = PopAnswer(answers)
  /\ attempt' = attempt + 1
  /\ pc' = "ask"
  /\ UNCHANGED <<config, said, currentQuestionIndex, score, startTime, endTime,
                 timeoutId, i, userAnswer, now, results, finishedBy,
                 presented, cmd, store, pf>>

\* a prompt of the question loop rejects (inside the try block)
PromptFails ==
  /\ pc \in PromptPcs
  /\ CatchError
  /\ userAnswer' = NoAnswer
  /\ UNCHANGED <<config, said, engine, i, attempt, now, results, finishedBy,
                 presented, store, pf>>

\* ---------------------------------------------------------- deadline timer
TimerFires ==
  /\ pc \in PromptPcs
  /\ TimerDue
  /\ timeoutId' = "fired"
  /\ finishQuiz("timer")
  /\ UNCHANGED <<config, said, currentQuestionIndex, answers, score, startTime,
                 pc, i, attempt, userAnswer, now, presented, cmd, pf>>

\* wall-clock time passes while a prompt is waiting for the user
Tick ==
  /\ pc \in PromptPcs \cup {"confirm"}
  /\ ~TimerDue
  /\ now < MaxTime
  /\ now' = now + 1
  /\ UNCHANGED <<config, said, engine, timeoutId, pc, i, attempt, userAnswer,
                 results, finishedBy, presented, cmd, store, pf>>

\* ------------------------------------------------------------ saveResult
\* The Session Result a save holds is the object finishQuiz built: its
\* answers property is the engine's own array, read when it is serialised.
HeldResult(k) == [results[k] EXCEPT !.answers = answers]

\* I/O completions are delivered while the engine waits at a prompt or
\* after start() has returned
SaveCanRun(k) ==
  /\ k \in 1..Len(saves)
  /\ pc \notin {"loop", "pure", "validate"}

\* I/O failures are injected into the first MaxFailCall calls of a run
MayFail(k) == k <= MaxFailCall

\* loadResults settles and saveResult resumes with the loaded array
SaveLoaded(k) ==
  /\ SaveCanRun(k)
  /\ saves[k].phase = "load"
  /\ \E readFails \in {f \in BOOLEAN : f => MayFail(k)} :
       saves' = [saves EXCEPT ![k] = [phase |-> "write",
                                      loaded |-> loadResults(readFails),
                                      readFailed |-> readFails]]
  /\ UNCHANGED <<config, said, engine, timeoutId, pc, i, attempt, userAnswer, now,
                 results, finishedBy, presented, cmd, file, file0, pf>>

\* push, trim, ensureResultsDir and writeFile succeed
SaveWritten(k) ==
  /\ SaveCanRun(k)
  /\ saves[k].phase = "write"
  /\ file' = OkFile(JsonArray(TrimResults(Append(saves[k].loaded, HeldResult(k)))))
  /\ saves' = [saves EXCEPT ![k].phase = "done", ![k].loaded = << >>]
  /\ UNCHANGED <<config, said, engine, timeoutId, pc, i, attempt, userAnswer, now,
                 results, finishedBy, presented, cmd, file0, pf>>

\* where a failure inside saveResult goes: its catch logs a warning
SaveFailureRaised == "raised"

SaveFailure == "warned"

\* ensureResultsDir or writeFile rejects
SaveFailed(k) ==
  /\ SaveCanRun(k)
  /\ saves[k].phase = "write"
  /\ MayFail(k)
  /\ saves' = [saves EXCEPT ![k].phase = SaveFailure, ![k].loaded = << >>]
  /\ UNCHANGED <<config, said, engine, timeoutId, pc, i, attempt, userAnswer, now,
                 results, finishedBy, presented, cmd, file, file0, pf>>

Next ==
  \/ StartDeclined
  \/ StartConfirmed
  \/ ConfirmFails
  \/ LoopStep
  \/ AnswerChoice
  \/ AnswerFreeForm
  \/ SelfAssess
  \/ InputRejected
  \/ RetryDeclined
  \/ RetryAccepted
  \/ PromptFails
  \/ TimerFires
  \/ Tick

Spec == Init /\ [][Next]_vars

\* ------------------------------------------- a session that is answered
\* Runs in which every prompt of the question loop is answered in the end,
\* the loop goes on when a prompt has been answered, and the event loop
\* runs the callback of a timer that has run out. The retries a user
\* accepts are finite: RetryAccepted stops at MaxAttempts.
LiveQuestionSeqs ==
  {<<SingleQ>>, <<FreeQ, MultiQ>>, <<MultiQ, EssayQ>>}

InitLive ==
  /\ questions \in LiveQuestionSeqs
  /\ timeLimit \in {0, 1}
  /\ allowRetry \in BOOLEAN
  /\ EngineInit
  /\ file = MissingFile /\ file0 = file
  /\ pc = "confirm"
  /\ PureIdle

Answered ==
  /\ WF_vars(LoopStep)
  /\ WF_vars(AnswerChoice)
  /\ WF_vars(AnswerFreeForm)
  /\ WF_vars(SelfAssess)
  /\ WF_vars(RetryDeclined \/ RetryAccepted)
  /\ WF_vars(TimerFires)

SpecLive == InitLive /\ [][Next]_vars /\ Answered

\* ------------------------------------------- a session and its saves
\* Runs in which the I/O of saveResult completes, at any point the event
\* loop allows, while the session goes on.
SaveQuestionSeqs ==
  {<<SingleQ>>, <<FreeQ>>, <<SingleQ, FreeQ>>, <<MultiQ, SingleQ>>}

InitSave ==
  /\ questions \in SaveQuestionSeqs
  /\ timeLimit \in {0, 1}
  /\ allowRetry \in BOOLEAN
  /\ EngineInit
  /\ file = MissingFile /\ file0 = file
  /\ pc = "confirm"
  /\ PureIdle

IoStep ==
  \/ \E k \in 1..Len(saves) : SaveLoaded(k)
  \/ \E k \in 1..Len(saves) : SaveWritten(k)
  \/ \E k \in 1..Len(saves) : SaveFailed(k)

NextSave == Next \/ IoStep

SpecSave == InitSave /\ [][NextSave]_vars

\* ------------------------------------------- the history store on its own
\* Runs of the fourth kind (pc = "store") hold no session: a caller saves
\* one Session Result after another, each call after the previous one has
\* completed.
OldResult ==
  [timestamp |-> 0, totalQuestions |-> 2, correctAnswers |-> 1,
   percentage |-> 50, duration |-> 0, answers |-> << >>]

StoreFiles == {MissingFile, CorruptFile, OkFile(<<OldResult>>)}

StoreAnswers ==
  { << >>,
    <<AnswerRecord(SingleQ, [sel |-> <<1>>, text |-> << >>], TRUE)>>,
    <<AnswerRecord(FreeQ, [sel |-> << >>, text |-> <<"E", "b", "s">>], TRUE)>> }

InitStore ==
  /\ questions = <<SingleQ>>
  /\ timeLimit = 0
  /\ allowRetry = FALSE
  /\ currentQuestionIndex = 0
  /\ answers \in StoreAnswers
  /\ score = Len(answers)
  /\ startTime = NULL /\ endTime = NULL
  /\ timeoutId = "none"
  /\ i = 0 /\ attempt = 0
  /\ userAnswer = NoAnswer
  /\ now = 0
  /\ results = << >> /\ finishedBy = << >> /\ presented = << >>
  /\ cmd = "awaiting"
  /\ feedback = NoFeedback
  /\ shown = NotShown
  /\ notice = ""
  /\ saves = << >>
  /\ file \in StoreFiles /\ file0 = file
  /\ pc = "store"
  /\ PureIdle

\* the k-th Session Result the caller saves
CallerResult(k) ==
  [timestamp |-> k, totalQuestions |-> 1, correctAnswers |-> Len(answers),
   percentage |-> 100 * Len(answers), duration |-> 1, answers |-> answers]

StoreSave ==
  /\ pc = "store"
  /\ Len(saves) < MaxSaves
  /\ \A k \in 1..Len(saves) : saves[k].phase \notin {"load", "write"}
  /\ results' = Append(results, CallerResult(Len(saves) + 1))
  /\ saves' = Append(saves, NewSave)
  /\ UNCHANGED <<config, said, engine, timeoutId, pc, i, attempt, userAnswer, now,
                 finishedBy, presented, cmd, file, file0, pf>>

NextStore == StoreSave \/ IoStep

SpecStore == InitStore /\ [][NextStore]_vars

\* ------------------------------------------- percentage as a pure function
\* Runs of the second kind hold no session (pc = "pure"): they draw a score
\* and a question count and apply the percentage computation of finishQuiz.
InitPct ==
  /\ questions = <<SingleQ>>
  /\ timeLimit = 0
  /\ allowRetry = FALSE
  /\ EngineInit
  /\ pc = "pure"
  /\ pfTotal \in 1..MaxTotal
  /\ pfScore \in 0..pfTotal
  /\ pfPct = NULL
  /\ file = MissingFile /\ file0 = file
  /\ vQ = SingleQ /\ vIn = NoInput /\ vOut = NoOutput
  /\ LoadIdle

ComputePct ==
  /\ pc = "pure"
  /\ pfPct = NULL
  /\ pfPct' = Percentage(pfScore, pfTotal)
  /\ UNCHANGED <<config, said, engine, timeoutId, pc, i, attempt, userAnswer, now,
                 results, finishedBy, presented, cmd, store, pfScore, pfTotal, pv,
                 ld>>

InitAll == Init \/ InitPct

NextPct == Next \/ ComputePct

SpecPct == InitAll /\ [][NextPct]_vars

\* ------------------------------------------- validators as pure functions
\* Runs of the third kind (pc = "validate") draw a question and a raw prompt
\* response and apply the validator of the question's type.
ValOptions ==
  { <<StrOpt("A"), StrOpt("B"), StrOpt("C")>>,
    <<StrOpt("A"), ObjOpt("B", "b"), StrOpt("C")>>,
    <<ObjOpt("A", "C"), StrOpt("C"), ObjOpt("b", "A")>> }

ValEntries ==
  {NumAns(0), NumAns(1), NumAns(2), StrAns("A"), StrAns("b"), StrAns("C")}

ValKeywords == { << >>, <<KwEbs>>, <<(<<"x">>), KwEbs>> }

ValTexts == { <<"E", "b", "s">>, <<"S", "3">> }

ValQuestions ==
  {[id |-> "v", type |-> "single-choice", options |-> o,
    correctAnswers |-> <<e>>, keywords |-> << >>] :
      o \in ValOptions, e \in ValEntries}
  \cup
  {[id |-> "v", type |-> "multiple-choice", options |-> o,
    correctAnswers |-> ca, keywords |-> << >>] :
      o \in ValOptions, ca \in UNION {[1..n -> ValEntries] : n \in 1..MaxCorrect}}
  \cup
  {[id |-> "v", type |-> "free-form", options |-> NoOptions,
    correctAnswers |-> << >>, keywords |-> kw] : kw \in ValKeywords}

\* the orders in which the members of a set can be delivered
RECURSIVE Orderings(_)
Orderings(S) ==
  IF S = {} THEN {<< >>}
  ELSE UNION {{<<x>> \o t : t \in Orderings(S \ {x})} : x \in S}

ValInputs(q) ==
  LET idx == 0..(Len(q.options) - 1)
  IN CASE q.type = "single-choice" ->
            {[sel |-> <<j>>, text |-> << >>, self |-> "false"] : j \in idx}
       [] q.type = "multiple-choice" ->
            {[sel |-> o, text |-> << >>, self |-> "false"] :
               o \in UNION {Orderings(S) : S \in (SUBSET idx) \ {{}}}}
       [] OTHER ->
            {[sel |-> << >>, text |-> t, self |-> sa] :
               t \in ValTexts, sa \in SelfAssessments}

InitVal ==
  /\ questions = <<SingleQ>>
  /\ timeLimit = 0
  /\ allowRetry = FALSE
  /\ EngineInit
  /\ file = MissingFile /\ file0 = file
  /\ pc = "validate"
  /\ pfScore = 0 /\ pfTotal = 1 /\ pfPct = NULL
  /\ vQ \in ValQuestions
  /\ vIn \in ValInputs(vQ)
  /\ vOut = NoOutput
  /\ LoadIdle

ValFrame ==
  UNCHANGED <<config, said, engine, timeoutId, pc, i, attempt, userAnswer, now,
              results, finishedBy, presented, cmd, store, pfScore, pfTotal,
              pfPct, vQ, vIn, ld>>

ValidateSingle ==
  /\ pc = "validate" /\ ~vOut.done
  /\ vQ.type = "single-choice"
  /\ vOut' = [done |-> TRUE, hint |-> FALSE,
              isCorrect |-> validateSingleChoice(vQ, vIn.sel[1])]
  /\ ValFrame

ValidateMultiple ==
  /\ pc = "validate" /\ ~vOut.done
  /\ vQ.type = "multiple-choice"
  /\ vOut' = [done |-> TRUE, hint |-> FALSE,
              isCorrect |-> validateMultipleChoice(vQ, SortSelected(vIn.sel))]
  /\ ValFrame

ValidateFree ==
  /\ pc = "validate" /\ ~vOut.done
  /\ vQ.type = "free-form"
  /\ vOut' = [done |-> TRUE, hint |-> KeywordHint(vQ, vIn.text),
              isCorrect |-> validateFreeForm(vQ, vIn.text, vIn.self)]
  /\ ValFrame

NextVal == ValidateSingle \/ ValidateMultiple \/ ValidateFree

SpecVal == InitVal /\ [][NextVal]_vars

\* ---------------------------------------------------------- QuestionLoader
\* A question as it stands in the questions file.  optionsKind and
\* correctKind say whether the property is an array, absent or something
\* else; id, question, type and category are "" when absent.
BadOpt == [kind |-> "bad", text |-> "", value |-> ""]

RawQuestion(id, type, category, opts, correct) ==
  [id |-> id, question |-> "Q", type |-> type, category |-> category,
   optionsKind |-> "array", options |-> opts,
   correctKind |-> "array", correctAnswers |-> correct,
   keywords |-> << >>]

LoadOptions == <<StrOpt("A"), ObjOpt("B", "b")>>

LoadEntries ==
  {NumAns(0 - 2), NumAns(0 - 1), NumAns(1), NumAns(2), StrAns("b"), StrAns("Z")}

RawBank ==
  {RawQuestion("s", "single-choice", "AWS", LoadOptions, <<e>>) : e \in LoadEntries}
  \cup
  {RawQuestion("m", "multiple-choice", "ai", LoadOptions, <<NumAns(0), StrAns("B")>>),
   RawQuestion("m", "multiple-choice", "ai", LoadOptions, << >>),
   RawQuestion("s", "single-choice", "", LoadOptions, <<NumAns(0), NumAns(1)>>),
   RawQuestion("s", "single-choice", "", <<StrOpt("A")>>, <<NumAns(0)>>),
   RawQuestion("s", "single-choice", "", <<StrOpt("A"), BadOpt>>, <<NumAns(0)>>),
   RawQuestion("f", "free-form", "aws", NoOptions, << >>),
   RawQuestion("", "free-form", "aws", NoOptions, << >>),
   RawQuestion("e", "essay", "aws", NoOptions, << >>),
   [RawQuestion("s", "single-choice", "aws", NoOptions, <<NumAns(0)>>)
      EXCEPT !.optionsKind = "absent"],
   [RawQuestion("s", "single-choice", "aws", LoadOptions, << >>)
      EXCEPT !.correctKind = "absent"],
   [RawQuestion("s", "single-choice", "aws", LoadOptions, << >>)
      EXCEPT !.correctKind = "other"],
   [RawQuestion("s", "single-choice", "aws", NoOptions, <<NumAns(0)>>)
      EXCEPT !.optionsKind = "other"],
   [RawQuestion("f", "free-form", "aws", NoOptions, << >>)
      EXCEPT !.question = ""],
   RawQuestion("f", "", "aws", NoOptions, << >>)}

\* String.prototype.toLowerCase on the category names in use
LowerCategory(c) ==
  CASE c = "AWS" -> "aws"
    [] c = "AI" -> "ai"
    [] OTHER -> c

\* lines 153-158: the index a correctAnswers entry refers to
AnswerIndexTextOnly(question, answer) ==
  LET hits == {j \in 1..Len(question.options) :
                 question.options[j].text = answer.str}
  IN IF answer.kind = "num" THEN answer.num
     ELSE IF hits = {} THEN -1
     ELSE (CHOOSE j \in hits : \A h \in hits : j <= h) - 1

AnswerIndex(question, answer) ==
  IF answer.kind = "num" THEN answer.num ELSE FindIndex(question.options, answer)

validateChoiceQuestionLax(question) ==
  CASE question.optionsKind # "array" ->
         "Choice questions must have an 'options' array"
    [] \E j \in 1..Len(question.options) :
         ~(\/ question.options[j].kind = "str"
           \/ question.options[j].kind = "obj" /\ question.options[j].text # "") ->
         "Invalid format"
    [] question.correctKind = "absent" ->
         "Missing 'correctAnswers' field"
    [] question.correctKind # "array" ->
         "'correctAnswers' must be an array"
    [] question.type = "single-choice" /\ Len(question.correctAnswers) # 1 ->
         "Single-choice questions must have exactly one correct answer"
    [] question.type = "multiple-choice" /\ Len(question.correctAnswers) = 0 ->
         "Multiple-choice questions must have at least one correct answer"
    [] \E j \in 1..Len(question.correctAnswers) :
         LET answerIndex == AnswerIndex(question, question.correctAnswers[j])
         IN answerIndex = 0 - 1 \/ answerIndex >= Len(question.options) ->
         "Correct answer doesn't match any option"
    [] OTHER -> ""

\* validateChoiceQuestion: the message of the error it throws, "" for none
validateChoiceQuestion(question) ==
  CASE question.optionsKind # "array" ->
         "Choice questions must have an 'options' array"
    [] Len(question.options) < 2 ->
         "Choice questions must have at least 2 options"
    [] \E j \in 1..Len(question.options) :
         ~(\/ question.options[j].kind = "str"
           \/ question.options[j].kind = "obj" /\ question.options[j].text # "") ->
         "Invalid format"
    [] question.correctKind = "absent" ->
         "Missing 'correctAnswers' field"
    [] question.correctKind # "array" ->
         "'correctAnswers' must be an array"
    [] question.type = "single-choice" /\ Len(question.correctAnswers) # 1 ->
         "Single-choice questions must have exactly one correct answer"
    [] question.type = "multiple-choice" /\ Len(question.correctAnswers) = 0 ->
         "Multiple-choice questions must have at least one correct answer"
    [] \E j \in 1..Len(question.correctAnswers) :
         LET answerIndex == AnswerIndex(question, question.correctAnswers[j])
         IN answerIndex = 0 - 1 \/ answerIndex >= Len(question.options) ->
         "Correct answer doesn't match any option"
    [] OTHER -> ""

\* validateQuestion: the message of the error it throws, "" for none
validateQuestion(question) ==
  CASE question.id = "" -> "Missing required field 'id'"
    [] question.question = "" -> "Missing required field 'question'"
    [] question.type = "" -> "Missing required field 'type'"
    [] question.type \notin SupportedTypes -> "Unsupported type"
    [] question.type \in {"multiple-choice", "single-choice"} ->
         validateChoiceQuestion(question)
    [] OTHER -> ""

\* Array.prototype.filter
RECURSIVE FilterCategoryExact(_, _)
FilterCategoryExact(qs, category) ==
  IF qs = << >> THEN << >>
  ELSE LET rest == FilterCategoryExact(Tail(qs), category)
       IN IF Head(qs).category # "" /\ Head(qs).category = category
            THEN <<Head(qs)>> \o rest
            ELSE rest

RECURSIVE FilterCategory(_, _)
FilterCategory(qs, category) ==
  IF qs = << >> THEN << >>
  ELSE LET rest == FilterCategory(Tail(qs), category)
       IN IF Head(qs).category # ""
             /\ LowerCategory(Head(qs).category) = LowerCategory(category)
            THEN <<Head(qs)>> \o rest
            ELSE rest

\* Math.floor(Math.random() * (i + 1)) for i = n - 1 down to 1: the choice
\* at i is any of 0..i
RandomChoices(n) ==
  {c \in [1..(n - 1) -> 0..(n - 1)] : \A k \in 1..(n - 1) : c[k] <= k}

\* [array[i], array[j]] = [array[j], array[i]], positions counted from 0
Swap(array, a, b) ==
  [array EXCEPT ![a + 1] = array[b + 1], ![b + 1] = array[a + 1]]

RECURSIVE ShuffleFrom(_, _, _)
ShuffleFrom(array, choices, k) ==
  IF k < 1 THEN array
  ELSE ShuffleFrom(Swap(array, k, choices[k]), choices, k - 1)

\* shuffleArray with the random choices it draws
shuffleArrayOverwriting(array, choices) ==
  LET s == ShuffleFrom(array, choices, Len(array) - 1)
  IN IF Len(s) < 2 THEN s ELSE [s EXCEPT ![1] = s[2]]

shuffleArray(array, choices) == ShuffleFrom(array, choices, Len(array) - 1)

\* the arrays of a load: data.questions ("parsed"), what filter returned
\* ("filtered") and the spread copy made for the shuffle ("copy")
QuestionsArray(in) ==
  IF in.category # "" /\ in.category # "all" THEN "filtered" ELSE "parsed"

\* line 45: shuffleArray is handed [...questions]
ShuffleArgument(in) == "copy"

\* lines 36-41: the questions left by the category filter
FilteredNone(in) == in.file.questions

Filtered(in) ==
  IF in.category # "" /\ in.category # "all"
    THEN FilterCategory(in.file.questions, in.category)
    ELSE in.file.questions

\* loadQuestions with the random choices shuffleArray draws: what it
\* returns or the error it throws, the positions the shuffle produced
\* (order) and data.questions as the call leaves it (parsed)
loadQuestions(in, choices) ==
  LET filtered == Filtered(in)
      order == shuffleArray([j \in 1..Len(filtered) |-> j], choices)
      used == IF in.shuffle THEN order ELSE << >>
      shuffled == IF in.shuffle THEN shuffleArray(filtered, choices) ELSE filtered
      parsed == IF in.shuffle /\ QuestionsArray(in) = "parsed"
                                /\ ShuffleArgument(in) = QuestionsArray(in)
                  THEN shuffled ELSE in.file.questions
      threw(msg) == [state |-> "threw", questions |-> << >>, error |-> msg,
                     order |-> used, parsed |-> parsed]
      limited == IF in.limit > 0 /\ in.limit < Len(shuffled)
                   THEN SubSeq(shuffled, 1, in.limit)
                   ELSE shuffled
      bad == {j \in 1..Len(limited) : validateQuestion(limited[j]) # ""}
  IN CASE in.file.kind = "missing" -> threw("Questions file not found")
       [] in.file.kind = "unreadable" -> threw("read error")
       [] in.file.kind = "badjson" -> threw("Invalid JSON format")
       [] in.file.kind = "noarray" ->
            threw("Questions file must contain a \"questions\" array")
       [] bad # {} ->
            threw(validateQuestion(limited[CHOOSE j \in bad : \A h \in bad : j <= h]))
       [] OTHER -> [state |-> "returned", questions |-> limited, error |-> "",
                    order |-> used, parsed |-> parsed]

\* Runs of the fifth kind (pc = "load") load a questions file once.
\* The files hold the questions validation accepts and at most one that it
\* rejects.
FileQuestions(n) ==
  {qs \in [1..n -> RawBank] :
     Cardinality({j \in 1..n : validateQuestion(qs[j]) # ""}) <= 1}

LoadFiles ==
  {[kind |-> k, questions |-> << >>] :
     k \in {"missing", "unreadable", "badjson", "noarray"}}
  \cup
  {[kind |-> "ok", questions |-> qs] :
     qs \in UNION {FileQuestions(n) : n \in 0..MaxFileLen}}

InitLoad ==
  /\ questions = <<SingleQ>>
  /\ timeLimit = 0
  /\ allowRetry = FALSE
  /\ EngineInit
  /\ file = MissingFile /\ file0 = file
  /\ pc = "load"
  /\ pfScore = 0 /\ pfTotal = 1 /\ pfPct = NULL
  /\ vQ = SingleQ /\ vIn = NoInput /\ vOut = NoOutput
  /\ lIn \in [file : LoadFiles, category : {"", "all", "aws", "AI"},
              shuffle : BOOLEAN, limit : 0..MaxFileLen]
  /\ lOut = NoLoadOut

LoadQuestions ==
  /\ pc = "load"
  /\ lOut.state = "pending"
  /\ \E choices \in RandomChoices(Len(Filtered(lIn))) :
       lOut' = loadQuestions(lIn, choices)
  /\ UNCHANGED <<config, said, engine, timeoutId, pc, i, attempt, userAnswer, now,
                 results, finishedBy, presented, cmd, store, pfScore, pfTotal,
                 pfPct, pv, lIn>>

NextLoad == LoadQuestions

SpecLoad == InitLoad /\ [][NextLoad]_vars

\* ------------------------------------------------------- the start command
\* Runs of the sixth kind begin in the action of the start command
\* (pc = "command"): it loads the questions, and only with a non-empty
\* sequence constructs the engine and calls start().
GoodSingle == RawQuestion("s", "single-choice", "AWS", LoadOptions, <<NumAns(1)>>)
GoodFree == RawQuestion("f", "free-form", "aws", NoOptions, << >>)

CmdFiles ==
  {[kind |-> k, questions |-> << >>] :
     k \in {"missing", "unreadable", "badjson", "noarray", "ok"}}
  \cup
  {[kind |-> "ok", questions |-> qs] :
     qs \in {<<GoodSingle>>, <<GoodSingle, GoodFree>>,
             <<GoodSingle, RawQuestion("e", "essay", "aws", NoOptions, << >>)>>}}

InitCmd ==
  /\ questions = << >>
  /\ timeLimit = 0
  /\ allowRetry = FALSE
  /\ EngineInit
  /\ file = MissingFile /\ file0 = file
  /\ pc = "command"
  /\ pfScore = 0 /\ pfTotal = 1 /\ pfPct = NULL
  /\ vQ = SingleQ /\ vIn = NoInput /\ vOut = NoOutput
  /\ lIn \in [file : CmdFiles, category : {"all", "ai"},
              shuffle : BOOLEAN, limit : {0}]
  /\ lOut = NoLoadOut

\* await loader.loadQuestions(...)
CommandLoad ==
  /\ pc = "command"
  /\ \E choices \in RandomChoices(Len(Filtered(lIn))) :
       lOut' = loadQuestions(lIn, choices)
  /\ pc' = "loaded"
  /\ UNCHANGED <<config, said, engine, timeoutId, i, attempt, userAnswer, now,
                 results, finishedBy, presented, cmd, store, pfScore, pfTotal,
                 pfPct, pv, lIn>>

\* if (questions.length === 0)
NoQuestionsNever(qs) == FALSE

NoQuestions(qs) == Len(qs) = 0

\* the catch branch, or the exit for an empty sequence: process.exit(1)
CommandFails ==
  /\ pc = "loaded"
  /\ lOut.state = "threw" \/ NoQuestions(lOut.questions)
  /\ cmd' = IF lOut.state = "threw" THEN "errorBranch" ELSE "noQuestions"
  /\ pc' = "exited"
  /\ UNCHANGED <<config, said, engine, timeoutId, i, attempt, userAnswer, now,
                 results, finishedBy, presented, store, pf>>

\* new Quiz({questions, timeLimit, allowRetry}) and the call of start()
CommandStartsQuiz ==
  /\ pc = "loaded"
  /\ lOut.state = "returned" /\ ~NoQuestions(lOut.questions)
  /\ questions' = lOut.questions
  /\ timeLimit' \in {0, 1}
  /\ allowRetry' \in BOOLEAN
  /\ pc' = "confirm"
  /\ UNCHANGED <<engine, said, timeoutId, i, attempt, userAnswer, now,
                 results, finishedBy, presented, cmd, store, pf>>

NextCmd == CommandLoad \/ CommandFails \/ CommandStartsQuiz \/ NextSave

SpecCmd == InitCmd /\ [][NextCmd]_vars

\* ================================================================ claims

\* a step of start() or askQuestion that issues a prompt of the question loop
IssuesPrompt == pc' \in PromptPcs /\ pc' # pc

\* C1: once the deadline timer has fired, no further question is presented
\* and no further prompt of the question loop is issued.
C1_NoPromptAfterTimeout ==
  [][timeoutId = "fired" => (~IssuesPrompt /\ presented' = presented)]_vars

\* C2: finishQuiz runs at most once per session, so at most one Session
\* Result is created and saveResult is invoked at most once.
C2_FinishAtMostOnce == Len(results) <= 1

\* askQuestion returns because the retry prompt was declined
DeclineKeepsIncorrect ==
  (pc = "retry" /\ pc' = "loop") =>
    (Len(answers') = i' /\ ~answers'[i'].isCorrect)

\* askQuestion returns with a correct attempt that follows an accepted retry
RetryThenCorrect ==
  (pc \in {"ask", "assess"} /\ pc' = "loop" /\ attempt > 1 /\ score' > score) =>
    (Len(answers') = i' /\ answers'[i'].isCorrect
       /\ \A j \in 1..Len(answers') : j < i' => answers'[j] = answers[j])

\* C3: when askQuestion returns for question i there is exactly one Answer
\* Record for it, at position i of answers; a declined retry leaves it marked
\* incorrect; a correct attempt after an accepted retry leaves it marked
\* correct with no discarded attempt left over; a one-question session whose
\* single record is incorrect has percentage 0.
C3_RetryInvariant ==
  /\ [](pc = "loop" /\ i >= 1 =>
          (Len(answers) = i /\ answers[i].questionId = questions[i].id
             /\ answers[i].type = questions[i].type))
  /\ [][DeclineKeepsIncorrect]_vars
  /\ [][RetryThenCorrect]_vars
  /\ [](\A j \in 1..Len(results) :
          (results[j].totalQuestions = 1 /\ Len(results[j].answers) = 1
             /\ ~results[j].answers[1].isCorrect) => results[j].percentage = 0)

C3_Witness ==
  /\ pc = "loop" /\ i >= 1 /\ allowRetry /\ attempt >= 2
  /\ Len(answers) = i /\ answers[i].isCorrect

\* C4: answers holds at most one record per question position, in question
\* order, answers.length <= currentQuestionIndex + 1 <= questions.length, and
\* every Session Result has answers.length <= totalQuestions.
C4_AnswersBounded ==
  /\ Len(answers) <= currentQuestionIndex + 1
  /\ currentQuestionIndex + 1 <= Len(questions)
  /\ \A j \in 1..Len(answers) : answers[j].questionId = questions[j].id
  /\ \A j \in 1..Len(results) : Len(results[j].answers) <= results[j].totalQuestions

C4_Witness ==
  /\ pc = "retry" /\ Len(questions) >= 2
  /\ Len(answers) = Len(questions)
  /\ currentQuestionIndex + 1 = Len(questions)

\* C5: declining the start confirmation leaves startTime null, arms no timer,
\* presents no question, leaves answers empty and score 0, and neither
\* finishQuiz nor saveResult runs.
C5_DeclineNoEffects ==
  pc = "cancelled" =>
    /\ startTime = NULL /\ endTime = NULL
    /\ timeoutId = "none"
    /\ presented = << >>
    /\ answers = << >> /\ score = 0
    /\ results = << >> /\ finishedBy = << >>

C5_Witness == pc = "cancelled" /\ timeLimit > 0 /\ now > 0

\* C6: a session whose question iteration fails runs no finalization and
\* produces no Session Result.
C6_FailureNoResult == pc = "error" => results = << >>

\* C7: a failure during question iteration makes start() end in an error
\* that the invoking command observes in its error branch.
C7_FailureSurfaced == pc = "error" => cmd = "errorBranch"

\* C8: every Session Result produced by the deadline timer has
\* answers.length < totalQuestions and totalQuestions = questions.length.
C8_TimeoutTruncates ==
  \A j \in 1..Len(results) :
    finishedBy[j] = "timer" =>
      /\ Len(results[j].answers) < results[j].totalQuestions
      /\ results[j].totalQuestions = Len(questions)

C10_NeverHundred ==
  /\ (pfPct # NULL /\ pfScore < pfTotal) => pfPct # 100
  /\ \A j \in 1..Len(results) :
       results[j].correctAnswers < results[j].totalQuestions =>
         results[j].percentage # 100

\* C10 amended: with score < questions.length the percentage is never 100
\* when there are fewer than 200 questions; from 200 questions on, a score
\* within half a percent of the total rounds to 100 (199 of 200).
C10_NeverHundredBelow200 ==
  /\ (pfPct # NULL /\ pfScore < pfTotal /\ pfTotal < 200) => pfPct # 100
  /\ (pfPct # NULL /\ pfScore = 199 /\ pfTotal = 200) => pfPct = 100
  /\ \A j \in 1..Len(results) :
       results[j].correctAnswers < results[j].totalQuestions =>
         results[j].percentage # 100

C10_Witness == pfPct = 99 /\ pfScore = 198 /\ pfTotal = 199

\* the resolution of a correctAnswers entry as the data model words it:
\* a number is the index itself; any other entry is the first option that is
\* a string equal to it or an object whose text or value equals it
EntryMatches(opt, entry) ==
  IF opt.kind = "str" THEN opt.text = entry.str
  ELSE (opt.text = entry.str \/ opt.value = entry.str)

ResolvesTo(q, entry, idx) ==
  IF entry.kind = "num" THEN idx = entry.num
  ELSE /\ idx \in 0..(Len(q.options) - 1)
       /\ EntryMatches(q.options[idx + 1], entry)
       /\ \A j \in 0..(idx - 1) : ~EntryMatches(q.options[j + 1], entry)

\* C11: validateSingleChoice is true exactly for the index that
\* correctAnswers[0] resolves to, false for every other index in range, for
\* numeric, string and {text, value} forms.
C11_SingleChoiceIff ==
  (vOut.done /\ vQ.type = "single-choice") =>
    (vOut.isCorrect <=> ResolvesTo(vQ, vQ.correctAnswers[1], vIn.sel[1]))

C11_Witness ==
  /\ vOut.done /\ vOut.isCorrect /\ vQ.type = "single-choice"
  /\ vQ.correctAnswers[1].kind = "str"
  /\ vQ.options[vIn.sel[1] + 1].kind = "obj"
  /\ vQ.options[vIn.sel[1] + 1].value = vQ.correctAnswers[1].str

Occurrences(seq, x) == Cardinality({j \in 1..Len(seq) : seq[j] = x})

\* C12: the multiple-choice validation is true exactly when the selected
\* indices and the resolved correct indices are equal once both are sorted
\* ascending (same length, same elements); [2,0,1] against [0,1,2] is
\* correct, [0,1] against [0,1,2] is incorrect.
C12_MultipleChoiceSorted ==
  (vOut.done /\ vQ.type = "multiple-choice") =>
    /\ vOut.isCorrect <=>
         /\ Len(vIn.sel) = Len(vQ.correctAnswers)
         /\ \A idx \in 0..(Len(vQ.options) - 1) :
              Occurrences(vIn.sel, idx) =
                Cardinality({j \in 1..Len(vQ.correctAnswers) :
                               ResolvesTo(vQ, vQ.correctAnswers[j], idx)})
    /\ (vIn.sel = <<2, 0, 1>> /\ vQ.correctAnswers = <<NumAns(0), NumAns(1), NumAns(2)>>)
         => vOut.isCorrect
    /\ (vIn.sel = <<0, 1>> /\ vQ.correctAnswers = <<NumAns(0), NumAns(1), NumAns(2)>>)
         => ~vOut.isCorrect

C12_Witness ==
  /\ vOut.done /\ vOut.isCorrect /\ vQ.type = "multiple-choice"
  /\ vIn.sel = <<2, 0, 1>>
  /\ vQ.correctAnswers = <<StrAns("C"), NumAns(1), StrAns("A")>>

\* C13: for a free-form question correctness is decided by the
\* self-assessment alone: 'correct' and 'partially correct' give true,
\* 'incorrect' gives false, whatever the keywords and the answer text.
C13_SelfAssessmentOnly ==
  (vOut.done /\ vQ.type = "free-form") =>
    (vOut.isCorrect <=> vIn.self \in {"true", "partial"})

C13_Witness ==
  /\ vOut.done /\ vQ.type = "free-form" /\ vQ.keywords # << >>
  /\ ~vOut.hint /\ vOut.isCorrect /\ vIn.self = "partial"

\* C14: questions are presented in input order: the questions presented so
\* far are 0, 1, 2, ... with none skipped and none repeated, a pending prompt
\* belongs to the question presented last, a question is presented only
\* from the loop head when every earlier question has left exactly one
\* record, and a session that ran to the end presented every question.
PresentsNext ==
  presented' # presented =>
    /\ pc = "loop"
    /\ presented' = Append(presented, Len(presented))
    /\ Len(answers) = Len(presented)
    /\ currentQuestionIndex' = Len(presented)

C14_InputOrder ==
  /\ [](presented = [j \in 1..Len(presented) |-> j - 1])
  /\ [](pc \in PromptPcs =>
          /\ presented # << >>
          /\ i = presented[Len(presented)]
          /\ currentQuestionIndex = i)
  /\ [](pc = "done" => Len(presented) = Len(questions))
  /\ [][PresentsNext]_vars

C14_Witness ==
  /\ pc = "ask"
  /\ presented = <<0, 1>>
  /\ allowRetry
  /\ attempt = 2
  /\ Len(answers) = 1

\* C15: score equals the number of correct Answer Records in answers in
\* every state; every Session Result, as the save holds it and as it is
\* persisted, has correctAnswers equal to the number of correct records in
\* its answers; and a session without a timer firing whose records are all
\* correct ends with score = totalQuestions = answers.length and 100 percent.
CountCorrect(ans) == Cardinality({j \in 1..Len(ans) : ans[j].isCorrect})

C15_ScoreInvariant == score = CountCorrect(answers)

C15_ResultCounts ==
  /\ \A k \in 1..Len(results) :
       HeldResult(k).correctAnswers = CountCorrect(HeldResult(k).answers)
  /\ \A j \in 1..Len(file.data) :
       file.data[j].correctAnswers = CountCorrect(file.data[j].answers)

C15_AllCorrectIsHundred ==
  (/\ pc = "done"
   /\ finishedBy = <<"loop">>
   /\ \A j \in 1..Len(answers) : answers[j].isCorrect)
  => /\ score = Len(questions)
     /\ score = Len(answers)
     /\ results[1].correctAnswers = results[1].totalQuestions
     /\ results[1].percentage = 100

C15_ScoreCountsCorrect ==
  /\ C15_ScoreInvariant
  /\ C15_ResultCounts
  /\ C15_AllCorrectIsHundred

\* C16: what a save persists for a Session Result is the result as
\* finishQuiz assembled it (answers and counts at that instant), whatever
\* the engine did between the hand-off and the write.
PersistsAssembled ==
  \A k \in 1..Len(saves) :
    (saves[k].phase = "write" /\ saves'[k].phase = "done")
      => file'.data[Len(file'.data)] = JsonResult(results[k])

C16_ImmutableHandOff == [][PersistsAssembled]_vars

\* C17: saveResult is best-effort: a failure of reading, directory creation
\* or writing ends the call with a warning and never raises, and no step of
\* a save changes the session's control flow or the score, percentage and
\* answers the session reported.
SaveStepKeepsSession ==
  (\E k \in 1..Len(saves) : saves'[k] # saves[k])
    => UNCHANGED <<config, said, engine, timeoutId, pc, i, attempt, userAnswer,
                   results, finishedBy, presented, cmd>>

C17_BestEffort ==
  /\ [](\A k \in 1..Len(saves) :
          saves[k].phase \in {"load", "write", "done", "warned"})
  /\ [][SaveStepKeepsSession]_vars

C17_Witness ==
  /\ pc = "done"
  /\ Len(saves) = 1
  /\ saves[1].readFailed
  /\ saves[1].phase = "warned"
  /\ results[1].percentage = 100

\* C18: after successful sequential saves the file holds at most 50 Session
\* Results, the most recently saved ones in insertion order: what the store
\* held at first followed by the saved results, cut to its last 50; onto an
\* empty store N saves leave min(N, 50) results.
OnDisk(f) == IF f.kind = "ok" THEN f.data ELSE << >>

LastOf(seq, n) ==
  IF Len(seq) > n THEN SubSeq(seq, Len(seq) - n + 1, Len(seq)) ELSE seq

AllSavesSucceeded ==
  \A k \in 1..Len(saves) : saves[k].phase = "done" /\ ~saves[k].readFailed

C18_KeepsLatestFifty ==
  (pc = "store" /\ saves # << >> /\ AllSavesSucceeded)
  => /\ file.kind = "ok"
     /\ Len(file.data) <= 50
     /\ file.data = LastOf(OnDisk(file0) \o JsonArray(results), 50)
     /\ OnDisk(file0) = << >> =>
          /\ Len(file.data) = IF Len(saves) < 50 THEN Len(saves) ELSE 50
          /\ file.data[1].timestamp =
               IF Len(saves) > 50 THEN Len(saves) - 50 + 1 ELSE 1

C18_Witness ==
  /\ pc = "store"
  /\ Len(saves) = 52
  /\ AllSavesSucceeded
  /\ file0 = MissingFile
  /\ Len(file.data) = 50
  /\ file.data[1].timestamp = 3

\* C19: after a successful saveResult(r), loadResults returns a sequence
\* whose last element reads equal to r in timestamp, totalQuestions,
\* correctAnswers, percentage, duration and answers; the elements before it
\* are the results loaded before the save, the latest of them, in their
\* order; and loadResults returns the empty sequence when there is no file.
AnswerReadsEqual(a, b) ==
  /\ a.questionId = b.questionId
  /\ a.type = b.type
  /\ a.userAnswer = b.userAnswer
  /\ a.isCorrect = b.isCorrect
  /\ GetCorrectAnswers(a) = GetCorrectAnswers(b)

ResultReadsEqual(l, r) ==
  /\ l.timestamp = r.timestamp
  /\ l.totalQuestions = r.totalQuestions
  /\ l.correctAnswers = r.correctAnswers
  /\ l.percentage = r.percentage
  /\ l.duration = r.duration
  /\ Len(l.answers) = Len(r.answers)
  /\ \A j \in 1..Len(r.answers) : AnswerReadsEqual(l.answers[j], r.answers[j])

WriteKeepsEarlier ==
  \A k \in 1..Len(saves) :
    (pc = "store" /\ saves[k].phase = "write" /\ saves'[k].phase = "done")
      => /\ file'.data # << >>
         /\ SubSeq(file'.data, 1, Len(file'.data) - 1)
              = LastOf(saves[k].loaded, Len(file'.data) - 1)
         /\ Len(file'.data) - 1 = IF Len(saves[k].loaded) < 50
                                    THEN Len(saves[k].loaded) ELSE 49

C19_RoundTrip ==
  /\ [](file.kind = "missing" => loadResults(FALSE) = << >>)
  /\ []((pc = "store" /\ saves # << >> /\ saves[Len(saves)].phase = "done")
          => /\ loadResults(FALSE) # << >>
             /\ ResultReadsEqual(loadResults(FALSE)[Len(loadResults(FALSE))],
                                  results[Len(results)]))
  /\ [][WriteKeepsEarlier]_vars

C19_Witness ==
  /\ pc = "store"
  /\ Len(saves) = 2
  /\ saves[2].phase = "done"
  /\ file0 = OkFile(<<OldResult>>)
  /\ Len(loadResults(FALSE)) = 3
  /\ answers # << >>
  /\ answers[1].type = "free-form"
  /\ "correctAnswers" \notin DOMAIN loadResults(FALSE)[3].answers[1]

\* C20: every choice question in a sequence loadQuestions returns has each
\* correctAnswers entry resolving to an index i with 0 <= i < options.length
\* (directly, by a string option, or by an option's text or value); and a
\* load that validates a choice question with an entry that does not
\* resolve so ends with an error.
EntryResolves(q, entry) ==
  \E idx \in 0..(Len(q.options) - 1) : ResolvesTo(q, entry, idx)

AllEntriesResolve(q) ==
  q.type \in {"single-choice", "multiple-choice"} =>
    \A j \in 1..Len(q.correctAnswers) : EntryResolves(q, q.correctAnswers[j])

C20_EntriesResolve ==
  /\ lOut.state = "returned" =>
       \A j \in 1..Len(lOut.questions) : AllEntriesResolve(lOut.questions[j])
  /\ (/\ lOut.state # "pending"
      /\ lIn.file.kind = "ok"
      /\ lIn.category = "all" /\ lIn.limit = 0
      /\ \E j \in 1..Len(lIn.file.questions) :
           ~AllEntriesResolve(lIn.file.questions[j]))
     => lOut.state = "threw"

\* C21: loadQuestions fails, returning no sequence, for a missing file,
\* malformed JSON or a missing questions array, and whenever a question of
\* the sequence it is to return (after filter, shuffle and limit) lacks id,
\* question or type, has an unsupported type, or is a choice question whose
\* options are not an array of at least 2 well-formed entries, whose
\* correctAnswers is missing or no array, or has the wrong count for its type.
WellFormedOption(opt) ==
  opt.kind = "str" \/ (opt.kind = "obj" /\ opt.text # "")

Defective(q) ==
  \/ q.id = "" \/ q.question = "" \/ q.type = ""
  \/ q.type \notin {"single-choice", "multiple-choice", "free-form"}
  \/ /\ q.type \in {"single-choice", "multiple-choice"}
     /\ \/ q.optionsKind # "array"
        \/ Len(q.options) < 2
        \/ \E j \in 1..Len(q.options) : ~WellFormedOption(q.options[j])
        \/ q.correctKind # "array"
        \/ q.type = "single-choice" /\ Len(q.correctAnswers) # 1
        \/ q.type = "multiple-choice" /\ Len(q.correctAnswers) = 0

\* the questions the load is to return: filtered, in the order produced,
\* cut to the limit
Selected ==
  LET f == Filtered(lIn)
      o == IF lIn.shuffle THEN [j \in 1..Len(f) |-> f[lOut.order[j]]] ELSE f
      n == IF lIn.limit > 0 /\ lIn.limit < Len(o) THEN lIn.limit ELSE Len(o)
  IN SubSeq(o, 1, n)

C21_LoadFails ==
  lOut.state # "pending" =>
    /\ lIn.file.kind \in {"missing", "badjson", "noarray"} => lOut.state = "threw"
    /\ (lIn.file.kind = "ok" /\ \E j \in 1..Len(Selected) : Defective(Selected[j]))
         => lOut.state = "threw"
    /\ lOut.state = "threw" => (lOut.questions = << >> /\ lOut.error # "")

C21_Witness ==
  /\ lOut.state = "threw"
  /\ lIn.file.kind = "ok"
  /\ lIn.shuffle /\ lIn.limit = 1
  /\ Len(lIn.file.questions) = 2
  /\ ~Defective(lIn.file.questions[1])
  /\ lOut.error = "Single-choice questions must have exactly one correct answer"

\* C22: a sequence loadQuestions returns has pairwise distinct question ids.
C22_UniqueIds ==
  lOut.state = "returned" =>
    \A j, k \in 1..Len(lOut.questions) :
      lOut.questions[j].id = lOut.questions[k].id => j = k

\* C23: when loading the questions fails or yields an empty sequence, the
\* start command ends with a failure and no engine is constructed: no
\* confirmation prompt, no timer, no Session Result, nothing persisted.
ConfigurationError ==
  lOut.state = "threw" \/ (lOut.state = "returned" /\ lOut.questions = << >>)

FailsAtOnce ==
  (pc = "loaded" /\ ConfigurationError)
    => (pc' = "exited" /\ cmd' \in {"errorBranch", "noQuestions"})

C23_NoPartialStart ==
  /\ [](ConfigurationError =>
          /\ pc \in {"loaded", "exited"}
          /\ questions = << >>
          /\ timeoutId = "none"
          /\ startTime = NULL
          /\ presented = << >> /\ results = << >>
          /\ saves = << >> /\ file = file0)
  /\ [][FailsAtOnce]_vars

C23_Witness ==
  /\ pc = "exited"
  /\ cmd = "noQuestions"
  /\ lIn.category = "ai"
  /\ lIn.file.questions # << >>

\* C24: the step that validates an attempt appends its Answer Record and
\* prints its verdict, with the correct answers when it is incorrect; a retry
\* prompt is issued only by such a step, so whenever a retry decision is
\* pending the record and the feedback of that very attempt are already out.
AttemptJudged ==
  (pc \in {"ask", "assess"} /\ pc' \in {"retry", "loop"}) =>
    /\ Len(answers') = Len(answers) + 1
    /\ answers'[Len(answers')].questionId = questions[i + 1].id
    /\ feedback'.index = i /\ feedback'.attempt = attempt
    /\ feedback'.correct = answers'[Len(answers')].isCorrect
    /\ feedback'.reveal = ~answers'[Len(answers')].isCorrect

RetryPromptFollowsJudgement ==
  (pc' = "retry" /\ pc # "retry") => pc \in {"ask", "assess"}

C24_FeedbackBeforeRetry ==
  /\ [][AttemptJudged]_vars
  /\ [][RetryPromptFollowsJudgement]_vars
  /\ [](pc = "retry" =>
          /\ feedback.index = i /\ feedback.attempt = attempt
          /\ ~feedback.correct /\ feedback.reveal
          /\ answers # << >>
          /\ ~answers[Len(answers)].isCorrect
          /\ answers[Len(answers)].questionId = questions[i + 1].id)

C24_Witness ==
  /\ pc = "retry"
  /\ i = 1 /\ attempt = 2
  /\ feedback.index = 1 /\ feedback.attempt = 2 /\ feedback.reveal

\* C25: the deadline timer is armed at most once, by the step that accepts
\* the start confirmation and only when timeLimit > 0; with timeLimit 0 no
\* timer exists and no Session Result comes from a timer; when the iteration
\* has completed or failed the timer is no longer armed, and the timer
\* callback runs only while a prompt of the iteration is pending.
ArmedOnce ==
  /\ (timeoutId' = "armed" /\ timeoutId # "armed") =>
       (pc = "confirm" /\ pc' = "loop" /\ timeoutId = "none" /\ timeLimit > 0)
  /\ timeoutId # "none" => timeoutId' # "none"

CallbackOnlyWhilePrompting ==
  finishedBy' # finishedBy /\ finishedBy'[Len(finishedBy')] = "timer" =>
    (pc \in PromptPcs /\ timeoutId = "armed" /\ timeoutId' = "fired")

C25_TimerLifeCycle ==
  /\ [][ArmedOnce]_vars
  /\ [][CallbackOnlyWhilePrompting]_vars
  /\ [](timeoutId # "none" => (timeLimit > 0 /\ startTime # NULL))
  /\ [](timeLimit = 0 =>
          (timeoutId = "none" /\ \A j \in 1..Len(finishedBy) : finishedBy[j] # "timer"))
  /\ [](pc \in {"done", "error"} => timeoutId # "armed")

C25_Witness ==
  /\ pc = "error"
  /\ timeLimit > 0
  /\ timeoutId = "cleared"
  /\ now >= startTime + timeLimit

\* C26: with allowRetry false every question gets one attempt: no retry
\* prompt is shown, no Answer Record is ever removed, and the step that
\* validates the attempt, correct or not, leaves its record and ends the
\* question.
OneAttemptOnly ==
  ~allowRetry =>
    /\ Len(answers') >= Len(answers)
    /\ SubSeq(answers', 1, Len(answers)) = answers
    /\ (pc \in {"ask", "assess"} /\ Len(answers') > Len(answers)) =>
         (pc' = "loop" /\ i' = i + 1 /\ Len(answers') = i')

C26_NoRetryOneAttempt ==
  /\ [](~allowRetry => (pc # "retry" /\ attempt <= 1))
  /\ [][OneAttemptOnly]_vars

C26_Witness ==
  /\ ~allowRetry
  /\ pc = "loop" /\ i = 2
  /\ ~answers[1].isCorrect /\ answers[2].isCorrect

\* C27: accepting a retry removes exactly the record appended last and
\* presents the same question again; whenever a question is presented
\* again, after any number of accepted retries, answers, score and
\* currentQuestionIndex are what they were when it was first presented.
RetryRestores ==
  (pc = "retry" /\ pc' = "ask") =>
    /\ answers # << >>
    /\ answers' = SubSeq(answers, 1, Len(answers) - 1)
    /\ score' = score
    /\ currentQuestionIndex' = currentQuestionIndex
    /\ i' = i /\ presented' = presented
    /\ attempt' = attempt + 1

Recognized(type) ==
  type = "multiple-choice" \/ type = "single-choice" \/ type = "free-form"

UnsupportedAt(k) ==
  k < Len(questions) /\ ~Recognized(questions[k + 1].type)

Prompting == pc \in {"ask", "assess", "retry"}

UnsupportedRaises ==
  (pc = "loop" /\ UnsupportedAt(i) /\ pc' # "loop") =>
    /\ pc' = "error"
    /\ answers' = answers /\ score' = score
    /\ feedback' = feedback
    /\ timeoutId' # "armed"

ErrorIsFinal ==
  pc = "error" =>
    /\ pc' = "error"
    /\ presented' = presented
    /\ answers' = answers /\ score' = score
    /\ results' = results

C28_UnsupportedTypeFatal ==
  /\ [][UnsupportedRaises]_vars
  /\ [][ErrorIsFinal]_vars
  /\ [](Prompting => ~UnsupportedAt(i))
  /\ [](pc = "error" /\ UnsupportedAt(i) /\ presented # << >> =>
          /\ answers = shown.answers /\ score = shown.score
          /\ Len(answers) = i
          /\ ~(feedback.index = i /\ feedback.attempt > 0)
          /\ \A n \in 1..Len(presented) : presented[n] <= i)

C28_Witness ==
  /\ pc = "error"
  /\ i = 1 /\ UnsupportedAt(i)
  /\ presented = <<0, 1>>
  /\ Len(answers) = 1 /\ score = 1

\* C29: an empty selection and a blank text never reach the validators:
\* every judged attempt of a multiple-choice question carries a non-empty
\* selection and every free-form answer handed to validateFreeForm has a
\* non-blank character; an input a prompt refuses appends no record and
\* changes neither score nor answers.
IsBlank(text) == \A n \in 1..Len(text) : text[n] = " "

ValidatedInput(a) ==
  /\ a.type = "multiple-choice" => a.userAnswer.sel # << >>
  /\ a.type = "free-form" => ~IsBlank(a.userAnswer.text)

RefusalChangesNothing ==
  (notice' # notice /\ notice' # "") =>
    /\ pc = "ask" /\ pc' = "ask"
    /\ answers' = answers /\ score' = score
    /\ userAnswer' = userAnswer /\ feedback' = feedback

C29_RejectedInputsUnjudged ==
  /\ [](\A n \in 1..Len(answers) : ValidatedInput(answers[n]))
  /\ [](pc = "assess" => ~IsBlank(userAnswer.text))
  /\ [][RefusalChangesNothing]_vars

C29_Witness ==
  /\ notice = "Please provide an answer."
  /\ pc = "ask" /\ i = 1
  /\ Len(answers) = 1 /\ answers[1].type = "multiple-choice"
  /\ answers[1].userAnswer.sel # << >>

\* C30: an entry of correctAnswers resolves the same way everywhere: a
\* number is the index, any other entry is the first option that is a
\* string equal to it or an object whose text or value equals it; the index
\* the loader's validation computes for an entry is the index
\* validateSingleChoice and validateMultipleChoice compare the selection
\* with, whenever they are applied.
LoaderResolvesAsDefined(q, entry) ==
  LET idx == AnswerIndex(q, entry)
  IN IF entry.kind = "num" THEN idx = entry.num
     ELSE IF \E j \in 1..Len(q.options) : EntryMatches(q.options[j], entry)
       THEN ResolvesTo(q, entry, idx)
       ELSE idx = 0 - 1

LoaderIndices(q) ==
  [j \in 1..Len(q.correctAnswers) |-> AnswerIndex(q, q.correctAnswers[j])]

C30_OneResolution ==
  vOut.done =>
    /\ \A j \in 1..Len(vQ.correctAnswers) :
         LoaderResolvesAsDefined(vQ, vQ.correctAnswers[j])
    /\ vQ.type = "single-choice" =>
         (vOut.isCorrect <=> vIn.sel[1] = LoaderIndices(vQ)[1])
    /\ vQ.type = "multiple-choice" =>
         (vOut.isCorrect <=>
            /\ Len(vIn.sel) = Len(vQ.correctAnswers)
            /\ \A idx \in 0..(Len(vQ.options) - 1) :
                 Occurrences(vIn.sel, idx) = Occurrences(LoaderIndices(vQ), idx))

C30_Witness ==
  /\ vOut.done /\ vOut.isCorrect /\ vQ.type = "multiple-choice"
  /\ vQ.options = <<ObjOpt("A", "C"), StrOpt("C"), ObjOpt("b", "A")>>
  /\ vQ.correctAnswers = <<StrAns("A"), NumAns(1)>>
  /\ vIn.sel = <<1, 0>>

\* C31: loadQuestions filters by category, then shuffles, then cuts to the
\* limit: every returned record is a record of the file whose category is
\* the requested one up to letter case ('all' or no category keeps every
\* record), the result has min(limit, kept) records when limit > 0 and all
\* kept records when limit is 0, and without shuffle it is the first kept
\* records in file order; with shuffle it is the first records of the kept
\* ones in the order the shuffle produced.
SameIgnoringCase(a, b) ==
  \/ a = b
  \/ {a, b} = {"aws", "AWS"}
  \/ {a, b} = {"ai", "AI"}

KeptByFilter(q) ==
  \/ lIn.category \in {"", "all"}
  \/ (q.category # "" /\ SameIgnoringCase(q.category, lIn.category))

Kept == SelectSeq(lIn.file.questions, KeptByFilter)

IsPermutationOf(order, n) ==
  Len(order) = n /\ {order[j] : j \in 1..n} = 1..n

C31_FilterShuffleLimit ==
  lOut.state = "returned" =>
    LET out == lOut.questions
    IN /\ \A j \in 1..Len(out) :
            /\ KeptByFilter(out[j])
            /\ \E k \in 1..Len(lIn.file.questions) : lIn.file.questions[k] = out[j]
       /\ Len(out) = IF lIn.limit > 0 /\ lIn.limit < Len(Kept)
                       THEN lIn.limit ELSE Len(Kept)
       /\ ~lIn.shuffle => out = SubSeq(Kept, 1, Len(out))
       /\ lIn.shuffle =>
            /\ IsPermutationOf(lOut.order, Len(Kept))
            /\ \A j \in 1..Len(out) : out[j] = Kept[lOut.order[j]]

C31_Witness ==
  /\ lOut.state = "returned"
  /\ lIn.category = "aws" /\ ~lIn.shuffle /\ lIn.limit = 1
  /\ Len(lIn.file.questions) = 2
  /\ lIn.file.questions[1].category = "AWS"
  /\ lIn.file.questions[2].category = "aws"
  /\ lOut.questions = <<lIn.file.questions[1]>>

\* C32: only the records that survive the category filter and the limit
\* are validated: when each of them is a valid record the load returns
\* exactly them, whatever the records that were filtered out or cut off
\* look like.
SelectedKept ==
  LET o == IF lIn.shuffle
             THEN [j \in 1..Len(Kept) |-> Kept[lOut.order[j]]]
             ELSE Kept
      n == IF lIn.limit > 0 /\ lIn.limit < Len(o) THEN lIn.limit ELSE Len(o)
  IN SubSeq(o, 1, n)

ValidRecord(q) == ~Defective(q) /\ AllEntriesResolve(q)

BothSavesCompleted ==
  /\ Len(saves) = 2
  /\ \A k \in 1..2 : saves[k].phase = "done" /\ ~saves[k].readFailed

C33_NoLostSave ==
  BothSavesCompleted =>
    /\ file.kind = "ok"
    /\ Len(OnDisk(file)) = Len(OnDisk(file0)) + 2

\* C34: a read failure never destroys persisted sessions: when the load
\* of a saveResult call could not read the existing results file, the write
\* of that call leaves the results the file held in place, before the new
\* one.
WriteAfterReadFailure(k) ==
  /\ k \in 1..Len(saves)
  /\ saves[k].phase = "write" /\ saves[k].readFailed
  /\ saves'[k].phase = "done"

ReadFailureKeepsHistory ==
  \A k \in 1..Len(saves) :
    (WriteAfterReadFailure(k) /\ file.kind = "ok") =>
      /\ file'.kind = "ok"
      /\ Len(file'.data) > Len(file.data)
      /\ SubSeq(file'.data, 1, Len(file.data)) = file.data

C34_ReadFailureKeepsHistory == [][ReadFailureKeepsHistory]_vars

\* C36: every Session Result has the end time of its finalization as
\* timestamp and that end time minus the startTime recorded at confirmation
\* as duration, so duration >= 0; a Session Result produced by the deadline
\* timer has duration >= timeLimit.
StampedAtFinalization ==
  results' # results =>
    /\ Len(results') = Len(results) + 1
    /\ endTime' = now
    /\ results'[Len(results')].timestamp = endTime'

C36_DurationFromStart ==
  /\ [][StampedAtFinalization]_vars
  /\ [](\A k \in 1..Len(results) :
          /\ startTime # NULL
          /\ results[k].duration = results[k].timestamp - startTime
          /\ results[k].duration >= 0
          /\ finishedBy[k] = "timer" => results[k].duration >= timeLimit)

\* C35: a confirmed session that meets no failure eventually emits a
\* Session Result, when every prompt is answered in the end and the retries
\* accepted for a question are finite; with a time limit set, a prompt
\* answered at or after the deadline finds the Session Result emitted.
Failed == pc = "error"

PromptAnswered ==
  /\ pc \in PromptPcs
  /\ pc' # "error"
  /\ (pc' # pc \/ answers' # answers \/ userAnswer' # userAnswer \/ notice' # notice)

FinalizedByDeadline ==
  (/\ PromptAnswered
   /\ timeLimit > 0
   /\ now >= startTime + timeLimit)
    => results # << >>

C35_EventuallyFinalized ==
  /\ (startTime # NULL) ~> (results # << >> \/ Failed)
  /\ [][FinalizedByDeadline]_vars

C35_Witness ==
  /\ pc = "done"
  /\ timeLimit = 1 /\ now = 1
  /\ finishedBy = <<"timer", "loop">>
  /\ Len(questions) = 2 /\ Len(answers) = 2

\* C37: shuffleArray returns a permutation of its input, whatever the
\* random choices: the same length and every record as often as before;
\* and loadQuestions shuffles a copy: the parsed questions array keeps its
\* order.
SameRecords(a, b) ==
  /\ Len(a) = Len(b)
  /\ \A n \in 1..Len(a) : Occurrences(a, a[n]) = Occurrences(b, a[n])

ShuffledKept == [j \in 1..Len(lOut.order) |-> Kept[lOut.order[j]]]

C37_ShuffleIsPermutation ==
  (lOut.state # "pending" /\ lIn.file.kind = "ok") =>
    /\ lOut.parsed = lIn.file.questions
    /\ lIn.shuffle =>
         /\ IsPermutationOf(lOut.order, Len(Kept))
         /\ SameRecords(ShuffledKept, Kept)
         /\ lOut.state = "returned" /\ lIn.limit = 0 =>
              SameRecords(lOut.questions, Kept)

C37_Witness ==
  /\ lOut.state = "returned"
  /\ lIn.shuffle /\ lIn.limit = 0 /\ lIn.category = "all"
  /\ Len(lIn.file.questions) = 2
  /\ lOut.order = <<2, 1>>
  /\ lOut.questions[1] = lIn.file.questions[2]
  /\ lOut.questions[1] # lOut.questions[2]
  /\ lOut.parsed = lIn.file.questions

====
